---------------------------- MODULE Spec2Model ----------------------------
(***************************************************************************)
(* Solarlib (src/Solarlib.cpp, src/Solarlib.h): the site configuration,    *)
(* the shared cache SE, calcSolar and the accessor functions.              *)
(*                                                                         *)
(* Numbers.  TLC has 32-bit integers and no reals, so a C double is held   *)
(* as a record in one of three fixed-point forms:                          *)
(*   - "fix":  [k, v]     the value v / S                 (degrees,        *)
(*             minutes, radians, ratios), S = 10^4;                        *)
(*   - "jcn":  [k, v]     the value v / J, J = 10^8 (only the Julian       *)
(*             century JCN, which needs the finer grain);                  *)
(*   - "wide": [k, i, f]  the value i + f / WS with 0 <= f < WS,           *)
(*             WS = 1440 * S (day counts and second counts, whose whole    *)
(*             part exceeds what v / S can hold).                          *)
(* The refraction in arc seconds, before its division by 3600, is held as  *)
(* [k, v] with the value v / 100 ("arc" form): a fix value times an arc     *)
(* value is an arc value.                                                  *)
(* k is "num" for a finite value, "nan" for not-a-number, "inf" for an     *)
(* infinity (its sign in v or i).  Arithmetic rounds toward minus          *)
(* infinity.  Zero has no sign: x / 0 takes the sign of x.                 *)
(***************************************************************************)
EXTENDS Integers, Sequences, FiniteSets, TLC

S == 10 ^ 4
J == 10 ^ 8
WS == 1440 * S

Abs(n) == IF n < 0 THEN -n ELSE n
Sign(n) == IF n > 0 THEN 1 ELSE IF n < 0 THEN -1 ELSE 0

\* floor(a * n / d) without forming a * n; d > 0, n >= 0 and d * n < 2^31
MulRatio(a, n, d) == (a \div d) * n + ((a % d) * n) \div d

\* floor(a * b / S) for two fix mantissas, without forming a * b
FMul(a, b) ==
    LET ah == a \div S
        al == a % S
        bh == b \div S
        bl == b % S
    IN  ah * b + al * bh + (al * bl) \div S

\* floor(a * S / b) for two fix mantissas, b # 0, two decimal digits at a time
FDiv(a, b) ==
    LET n  == IF b < 0 THEN -a ELSE a
        d  == Abs(b)
        r1 == (n % d) * 100
        r2 == (r1 % d) * 100
    IN  (n \div d) * S + (r1 \div d) * 100 + r2 \div d

\* floor(j * x / J): a jcn mantissa times a fix mantissa, as a fix mantissa
JMul(j, x) ==
    LET jh == j \div S
        jl == j % S
        xh == x \div S
        xl == x % S
    IN  jh * xh + (jh * xl + jl * xh + (jl * xl) \div S) \div S

----------------------------------------------------------------------------
(* doubles in "fix" form *)

Num(v) == [k |-> "num", v |-> v]
NaN == [k |-> "nan", v |-> 0]
Inf(s) == [k |-> "inf", v |-> s]

IsNum(x) == x.k = "num"
IsNaN(x) == x.k = "nan"
IsInf(x) == x.k = "inf"

\* a decimal literal of the source: whole + frac / 10^places, rounded to 1/S
Lit(whole, frac, places) ==
    whole * S + (IF places <= 4
                 THEN frac * 10 ^ (4 - places)
                 ELSE (2 * frac + 10 ^ (places - 4)) \div (2 * 10 ^ (places - 4)))
Const(whole, frac, places) == Num(Lit(whole, frac, places))
\* an int converted to double
D(n) == Num(n * S)

Neg(x) == [x EXCEPT !.v = -x.v]

Add(x, y) ==
    IF IsNaN(x) \/ IsNaN(y) THEN NaN
    ELSE IF IsInf(x) THEN (IF IsInf(y) /\ y.v # x.v THEN NaN ELSE x)
    ELSE IF IsInf(y) THEN y
    ELSE Num(x.v + y.v)

Sub(x, y) == Add(x, Neg(y))

Mul(x, y) ==
    IF IsNaN(x) \/ IsNaN(y) THEN NaN
    ELSE IF IsInf(x) \/ IsInf(y)
         THEN (IF Sign(x.v) * Sign(y.v) = 0 THEN NaN ELSE Inf(Sign(x.v) * Sign(y.v)))
    ELSE Num(FMul(x.v, y.v))

Div(x, y) ==
    IF IsNaN(x) \/ IsNaN(y) THEN NaN
    ELSE IF IsInf(x)
         THEN (IF IsInf(y) THEN NaN ELSE Inf(IF y.v < 0 THEN -x.v ELSE x.v))
    ELSE IF IsInf(y) THEN Num(0)
    ELSE IF y.v = 0 THEN (IF x.v = 0 THEN NaN ELSE Inf(Sign(x.v)))
    ELSE Num(FDiv(x.v, y.v))

\* floor() of math.h
Floor(x) == IF IsNum(x) THEN Num((x.v \div S) * S) ELSE x

\* the comparisons of C: false when an operand is not-a-number
Lt(x, y) ==
    /\ ~IsNaN(x) /\ ~IsNaN(y)
    /\ IF IsInf(x) THEN x.v < 0 /\ ~(IsInf(y) /\ y.v < 0)
       ELSE IF IsInf(y) THEN y.v > 0
       ELSE x.v < y.v
Gt(x, y) == Lt(y, x)
Ge(x, y) == ~IsNaN(x) /\ ~IsNaN(y) /\ ~Lt(x, y)
Le(x, y) == Ge(y, x)

\* x * DEG_TO_RAD and x * RAD_TO_DEG (Arduino.h), with pi = 355 / 113
TimesDEG_TO_RAD(x) == IF IsNum(x) THEN Num(MulRatio(x.v, 71, 4068)) ELSE x
TimesRAD_TO_DEG(x) == IF IsNum(x) THEN Num(MulRatio(x.v, 4068, 71)) ELSE x

\* a double times the Julian century
TimesJCN(jcn, x) == IF IsNum(x) THEN Num(JMul(jcn.v, x.v)) ELSE x
----------------------------------------------------------------------------
(* math.h, on fix mantissas in radians *)

Pi == 31416
HalfPi == 15708
TwoPi == 62832

\* the integer square root of n >= 0, by Newton's iteration from above
RECURSIVE NewtonSqrt(_, _)
NewtonSqrt(n, g) ==
    LET h == (g + n \div g) \div 2
    IN  IF h >= g THEN g ELSE NewtonSqrt(n, h)
ISqrt(n) == IF n = 0 THEN 0 ELSE NewtonSqrt(n, 2 ^ 15)

\* sin y for 0 <= y <= pi/2: the Taylor series to y^9, never above 1
SinQ(y) ==
    LET y2 == (y * y) \div S
        t4 == S - y2 \div 72
        t3 == S - (y2 * t4) \div (42 * S)
        t2 == S - (y2 * t3) \div (20 * S)
        t1 == S - (y2 * t2) \div (6 * S)
        p  == (y * t1) \div S
    IN  IF p > S THEN S ELSE p

FSin(x) ==
    LET r == x % TwoPi
    IN  IF r <= HalfPi THEN SinQ(r)
        ELSE IF r <= Pi THEN SinQ(Pi - r)
        ELSE IF r <= Pi + HalfPi THEN -SinQ(r - Pi)
        ELSE -SinQ(TwoPi - r)

FCos(x) == FSin(x + HalfPi)

\* asin z for 0 <= z <= 1/2: the series to z^11
AsinSeries(z) ==
    LET z2 == (z * z) \div S
        c5 == 304 + (z2 * 224) \div S
        c4 == 446 + (z2 * c5) \div S
        c3 == 750 + (z2 * c4) \div S
        c2 == 1667 + (z2 * c3) \div S
        c1 == S + (z2 * c2) \div S
    IN  (z * c1) \div S

\* asin z for 0 <= z <= 1; above 1/2 by asin z = pi/2 - 2 asin sqrt((1 - z)/2)
AsinPos(z) ==
    IF 2 * z <= S THEN AsinSeries(z)
    ELSE HalfPi - 2 * AsinSeries(ISqrt(((S - z) * S) \div 2))

FAsin(x) == IF x < 0 THEN -AsinPos(-x) ELSE AsinPos(x)
FAcos(x) == HalfPi - FAsin(x)

\* atan z for z >= 0, by atan z = asin(z / sqrt(1 + z^2))
AtanPos(z) ==
    IF z <= S THEN AsinPos(FDiv(z, ISqrt(S * S + z * z)))
    ELSE HalfPi - AsinPos(FDiv(FDiv(S, z), ISqrt(S * S + FDiv(S, z) * FDiv(S, z))))
FAtan(z) == IF z < 0 THEN -AtanPos(-z) ELSE AtanPos(z)

Sin(x) == IF IsNum(x) THEN Num(FSin(x.v)) ELSE NaN
Cos(x) == IF IsNum(x) THEN Num(FCos(x.v)) ELSE NaN
Tan(x) == Div(Sin(x), Cos(x))
Acos(x) == IF IsNum(x) /\ Abs(x.v) <= S THEN Num(FAcos(x.v)) ELSE NaN
Asin(x) == IF IsNum(x) /\ Abs(x.v) <= S THEN Num(FAsin(x.v)) ELSE NaN
Atan2(y, x) ==
    IF ~IsNum(y) \/ ~IsNum(x) THEN NaN
    ELSE IF x.v = 0 THEN Num(Sign(y.v) * HalfPi)
    ELSE IF x.v > 0 THEN Num(FAtan(FDiv(y.v, x.v)))
    ELSE IF y.v >= 0 THEN Num(FAtan(FDiv(y.v, x.v)) + Pi)
    ELSE Num(FAtan(FDiv(y.v, x.v)) - Pi)
\* pow(x, n) for the exponents 3 and 5 the source uses
RECURSIVE Pow(_, _)
Pow(x, n) == IF n = 1 THEN x ELSE Mul(x, Pow(x, n - 1))
----------------------------------------------------------------------------
(* doubles in "wide" form: day counts and second counts *)

W(i, f) == [k |-> "num", i |-> i, f |-> f]
WNaN == [k |-> "nan", i |-> 0, f |-> 0]
WInf(s) == [k |-> "inf", i |-> s, f |-> 0]
\* i + f / WS with f of either sign, brought to 0 <= f < WS
WNorm(i, f) == W(i + f \div WS, f % WS)
\* an int or long converted to double
WD(n) == W(n, 0)

WNeg(a) == IF IsNum(a) THEN WNorm(-a.i, -a.f) ELSE [a EXCEPT !.i = -a.i]

WAdd(a, b) ==
    IF IsNaN(a) \/ IsNaN(b) THEN WNaN
    ELSE IF IsInf(a) THEN (IF IsInf(b) /\ b.i # a.i THEN WNaN ELSE a)
    ELSE IF IsInf(b) THEN b
    ELSE WNorm(a.i + b.i, a.f + b.f)

WSub(a, b) == WAdd(a, WNeg(b))

WLe(a, b) ==
    /\ ~IsNaN(a) /\ ~IsNaN(b)
    /\ IF IsInf(a) THEN a.i < 0 \/ (IsInf(b) /\ b.i > 0)
       ELSE IF IsInf(b) THEN b.i > 0
       ELSE a.i < b.i \/ (a.i = b.i /\ a.f <= b.f)

\* x / 1440 for a fix double x: one unit of x.v is one unit of f
Div1440(x) ==
    IF IsNaN(x) THEN WNaN ELSE IF IsInf(x) THEN WInf(x.v) ELSE WNorm(0, x.v)

\* (double)n / 24 for an int n
IntDiv24(n) == WNorm(0, n * 60 * S)

\* a * 1440 as a fix double, for a wide a
Times1440(a) ==
    IF IsNaN(a) THEN NaN ELSE IF IsInf(a) THEN Inf(a.i) ELSE Num(a.i * WS + a.f)

\* a * 86400
Times86400(a) ==
    IF ~IsNum(a) THEN a
    ELSE W(a.i * 86400 + (a.f * 60) \div S, ((a.f * 60) % S) * 1440)

\* the whole number a finite wide value truncates to (toward zero)
Trunc(a) == IF a.i >= 0 \/ a.f = 0 THEN a.i ELSE a.i + 1
----------------------------------------------------------------------------
(* Time.h: the wall-clock parts of a time_t, t >= 0 *)

second(t) == t % 60
minute(t) == (t \div 60) % 60
hour(t) == (t \div 3600) % 24

----------------------------------------------------------------------------
(* The program state *)

VARIABLES
    SE,         \* the cache that holds the configuration and all calculated values
    ret,        \* the last call: its function, its time argument, the value returned
    lastInit,   \* the arguments of the most recent initSolarCalc
    castNaN,    \* what this build's conversion of a non-finite double to time_t gives
    call,       \* the accessor call the main loop is in, and how far it has got
    interrupts  \* the number of interrupts handled so far

vars == <<SE, ret, lastInit, castNaN, call, interrupts>>

\* julian days to start of unix epoch, 2440587.5
julianUnixEpoch == W(2440587, WS \div 2)

\* a / 36525 for a wide a, in jcn form: a is taken in seconds, and
\* J / (86400 * 36525) = 1250 / 39447
Div36525(a) == Num(MulRatio(a.i * 86400 + (a.f * 60) \div S, 1250, 39447))

\* a variant of FlooredMod: the truncating remainder x - m * trunc(x / m) of fmod
TruncatingMod(x, m) ==
    LET q == Div(x, D(m))
        whole == IF IsNum(q) /\ q.v < 0 THEN Neg(Floor(Neg(q))) ELSE Floor(q)
    IN  Sub(x, Mul(D(m), whole))

\* x - m * floor(x / m)
FlooredMod(x, m) == Sub(x, Mul(D(m), Floor(Div(x, D(m)))))

\* (time_t) of a wide double: truncation; undefined for a non-finite value
CastTimeT(a, undef) == IF IsNum(a) THEN Trunc(a) ELSE undef

calc_timeFracDay(t, se) ==
    \* ((s/60 + m)/60 + h)/24 = ((s/60 + m) + 60 h)/1440, s/60 an int division
    [se EXCEPT !.timeFracDay =
        Div1440(D((second(t) \div 60) + minute(t) + 60 * hour(t)))]

\* a variant of calc_unixDays: the day count kept once it has been set
calc_unixDays_KeptOnceSet(t, se) ==
    IF se.unixDays # 0 THEN se ELSE [se EXCEPT !.unixDays = t \div 86400]

calc_unixDays(t, se) == [se EXCEPT !.unixDays = t \div 86400]

calc_JDN(se) ==
    LET jdn1 == WAdd(julianUnixEpoch, WD(se.unixDays))
        jdn2 == WAdd(jdn1, se.timeFracDay)
    IN  [se EXCEPT !.JDN = WSub(jdn2, IntDiv24(se.tzOffset))]

calc_JCN(se) == [se EXCEPT !.JCN = Div36525(WSub(se.JDN, WD(2451545)))]

calc_GMLS(se) ==
    LET gmls == Add(Const(280, 46646, 5),
                    TimesJCN(se.JCN, Add(Const(36000, 76983, 5),
                                         TimesJCN(se.JCN, Const(0, 3032, 7)))))
    IN  [se EXCEPT !.GMLS = FlooredMod(gmls, 360)]

calc_GMAS(se) ==
    [se EXCEPT !.GMAS =
        Add(Const(357, 52911, 5),
            TimesJCN(se.JCN, Sub(Const(35999, 5029, 5),
                                 TimesJCN(se.JCN, Const(0, 1537, 7)))))]

calc_EEO(se) ==
    [se EXCEPT !.EEO =
        Sub(Const(0, 16708634, 9),
            TimesJCN(se.JCN, Add(Const(0, 42037, 9),
                                 TimesJCN(se.JCN, Const(0, 1267, 10)))))]

calc_SEC(se) ==
    LET gmas == se.GMAS
        a == Mul(Sin(TimesDEG_TO_RAD(gmas)),
                 Sub(Const(1, 914602, 6),
                     TimesJCN(se.JCN, Add(Const(0, 4817, 6),
                                          TimesJCN(se.JCN, Const(0, 14, 6))))))
        b == Mul(Sin(TimesDEG_TO_RAD(Mul(D(2), gmas))),
                 Sub(Const(0, 19993, 6), TimesJCN(se.JCN, Const(0, 101, 6))))
        c == Mul(Sin(TimesDEG_TO_RAD(Mul(D(3), gmas))), Const(0, 289, 6))
    IN  [se EXCEPT !.SEC = Add(Add(a, b), c)]

calc_STL(se) == [se EXCEPT !.STL = Add(se.GMLS, se.SEC)]

calc_STA(se) == [se EXCEPT !.STA = Add(se.GMAS, se.SEC)]

calc_SRV(se) ==
    [se EXCEPT !.SRV =
        Div(Mul(Const(1, 1018, 9), Sub(D(1), Mul(se.EEO, se.EEO))),
            Add(D(1), Mul(se.EEO, Cos(TimesDEG_TO_RAD(se.STA)))))]

calc_SAL(se) ==
    [se EXCEPT !.SAL =
        Sub(Sub(se.STL, Const(0, 569, 5)),
            Mul(Const(0, 478, 5),
                Sin(TimesDEG_TO_RAD(Sub(Const(125, 4, 2),
                                        TimesJCN(se.JCN, Const(1934, 136, 3)))))))]

calc_MOE(se) ==
    LET sec == Sub(Const(21, 448, 3),
                   TimesJCN(se.JCN,
                       Add(Const(46, 815, 3),
                           TimesJCN(se.JCN,
                               Sub(Const(0, 59, 5),
                                   TimesJCN(se.JCN, Const(0, 1813, 6)))))))
    IN  [se EXCEPT !.MOE = Add(D(23), Div(Add(D(26), Div(sec, D(60))), D(60)))]

calc_OC(se) ==
    [se EXCEPT !.OC =
        Add(se.MOE,
            Mul(Const(0, 256, 5),
                Cos(TimesDEG_TO_RAD(Sub(Const(125, 4, 2),
                                        TimesJCN(se.JCN, Const(1934, 136, 3)))))))]
calc_SRA(se) ==
    [se EXCEPT !.SRA =
        TimesRAD_TO_DEG(
            Atan2(Mul(Cos(TimesDEG_TO_RAD(se.OC)), Sin(TimesDEG_TO_RAD(se.SAL))),
                  Cos(TimesDEG_TO_RAD(se.SAL))))]

calc_SDec(se) ==
    [se EXCEPT !.SDec =
        TimesRAD_TO_DEG(
            Asin(Mul(Sin(TimesDEG_TO_RAD(se.OC)), Sin(TimesDEG_TO_RAD(se.SAL)))))]

calc_vy(se) ==
    [se EXCEPT !.vy =
        Mul(Tan(TimesDEG_TO_RAD(Div(se.OC, D(2)))),
            Tan(TimesDEG_TO_RAD(Div(se.OC, D(2)))))]

calc_EOT(se) ==
    LET gmls == TimesDEG_TO_RAD(se.GMLS)
        gmas == TimesDEG_TO_RAD(se.GMAS)
        e1 == Mul(se.vy, Sin(Mul(D(2), gmls)))
        e2 == Mul(Mul(D(2), se.EEO), Sin(gmas))
        e3 == Mul(Mul(Mul(Mul(D(4), se.EEO), se.vy), Sin(gmas)),
                  Cos(Mul(D(2), gmls)))
        e4 == Mul(Mul(Mul(Const(0, 5, 1), se.vy), se.vy), Sin(Mul(D(4), gmls)))
        e5 == Mul(Mul(Mul(Const(1, 25, 2), se.EEO), se.EEO),
                  Sin(Mul(D(2), gmas)))
    IN  [se EXCEPT !.EOT =
            Mul(D(4), TimesRAD_TO_DEG(Sub(Sub(Add(Sub(e1, e2), e3), e4), e5)))]

calc_HAS(se) ==
    [se EXCEPT !.HAS =
        TimesRAD_TO_DEG(
            Acos(Sub(Div(Cos(TimesDEG_TO_RAD(Const(90, 833, 3))),
                         Mul(Cos(TimesDEG_TO_RAD(se.lat)),
                             Cos(TimesDEG_TO_RAD(se.SDec)))),
                     Mul(Tan(TimesDEG_TO_RAD(se.lat)),
                         Tan(TimesDEG_TO_RAD(se.SDec))))))]

\* a variant of calc_SolarNoonfrac: noon as sunrise plus half the day length
calc_SolarNoonfrac_ViaSunrise(se) ==
    LET rise == Sub(Sub(Sub(D(720), Mul(D(4), se.lon)), se.EOT),
                    Mul(D(4), se.HAS))
    IN  [se EXCEPT !.SolarNoonfrac = Div1440(Add(rise, Mul(D(4), se.HAS)))]

calc_SolarNoonfrac(se) ==
    [se EXCEPT !.SolarNoonfrac =
        Div1440(Sub(Sub(D(720), Mul(D(4), se.lon)), se.EOT))]

\* a variant of calc_SolarNoonDays: the time zone correction left out
calc_SolarNoonDays_NoZone(se) ==
    [se EXCEPT !.SolarNoonDays = WAdd(WD(se.unixDays), se.SolarNoonfrac)]

\* a variant of calc_SolarNoonDays: the time zone correction with the sign of JDN's
calc_SolarNoonDays_SubZone(se) ==
    LET days == WAdd(WD(se.unixDays), se.SolarNoonfrac)
    IN  [se EXCEPT !.SolarNoonDays = WSub(days, IntDiv24(se.tzOffset))]

calc_SolarNoonDays(se) ==
    LET days == WAdd(WD(se.unixDays), se.SolarNoonfrac)
    IN  [se EXCEPT !.SolarNoonDays = WAdd(days, IntDiv24(se.tzOffset))]

calc_SolarNoonTime(se, undef) ==
    [se EXCEPT !.SolarNoonTime = CastTimeT(Times86400(se.SolarNoonDays), undef)]

calc_Sunrise(se) ==
    LET frac == WSub(se.SolarNoonfrac, Div1440(Mul(se.HAS, D(4))))
        days == WAdd(WD(se.unixDays), frac)
        zone == WAdd(days, IntDiv24(se.tzOffset))
    IN  [se EXCEPT !.Sunrise = Times86400(zone)]

calc_SunriseTime(se, undef) ==
    [se EXCEPT !.SunriseTime = CastTimeT(se.Sunrise, undef)]

\* a variant of calc_Sunset: the sign of calc_Sunrise kept
calc_Sunset_Minus(se) ==
    LET frac == WSub(se.SolarNoonfrac, Div1440(Mul(se.HAS, D(4))))
        days == WAdd(WD(se.unixDays), frac)
        zone == WAdd(days, IntDiv24(se.tzOffset))
    IN  [se EXCEPT !.Sunset = Times86400(zone)]

calc_Sunset(se) ==
    LET frac == WAdd(se.SolarNoonfrac, Div1440(Mul(se.HAS, D(4))))
        days == WAdd(WD(se.unixDays), frac)
        zone == WAdd(days, IntDiv24(se.tzOffset))
    IN  [se EXCEPT !.Sunset = Times86400(zone)]

calc_SunsetTime(se, undef) ==
    [se EXCEPT !.SunsetTime = CastTimeT(se.Sunset, undef)]

calc_SunDuration(se) == [se EXCEPT !.SunDuration = Mul(D(8), se.HAS)]

\* a variant of calc_TST: 4 * SE.lon done in place, in the configuration
calc_TST_ScalingLon(se) ==
    LET lon4 == Mul(D(4), se.lon)
        tst  == Sub(Add(Add(Times1440(se.timeFracDay), se.EOT), lon4),
                    D(60 * se.tzOffset))
    IN  [se EXCEPT !.lon = lon4,
                   !.TST = Sub(tst, Mul(D(1440), Floor(Div(tst, D(1440)))))]

\* True Solar Time before its modulo
TSTraw(se) ==
    Sub(Add(Add(Times1440(se.timeFracDay), se.EOT), Mul(D(4), se.lon)),
        D(60 * se.tzOffset))

calc_TST(se) == [se EXCEPT !.TST = FlooredMod(TSTraw(se), 1440)]

\* a variant of calc_HA: the branch decided on True Solar Time as it was
\* before its modulo
calc_HA_OnRawTST(se) ==
    IF Lt(Div(TSTraw(se), D(4)), D(0))
    THEN [se EXCEPT !.HA = Add(Div(se.TST, D(4)), D(180))]
    ELSE IF Ge(Div(TSTraw(se), D(4)), D(0))
    THEN [se EXCEPT !.HA = Sub(Div(se.TST, D(4)), D(180))]
    ELSE se

\* neither branch is taken when TST is not-a-number: HA keeps its value
calc_HA(se) ==
    IF Lt(Div(se.TST, D(4)), D(0))
    THEN [se EXCEPT !.HA = Add(Div(se.TST, D(4)), D(180))]
    ELSE IF Ge(Div(se.TST, D(4)), D(0))
    THEN [se EXCEPT !.HA = Sub(Div(se.TST, D(4)), D(180))]
    ELSE se

calc_SZA(se) ==
    [se EXCEPT !.SZA =
        TimesRAD_TO_DEG(
            Acos(Add(Mul(Sin(TimesDEG_TO_RAD(se.lat)),
                         Sin(TimesDEG_TO_RAD(se.SDec))),
                     Mul(Mul(Cos(TimesDEG_TO_RAD(se.lat)),
                             Cos(TimesDEG_TO_RAD(se.SDec))),
                         Cos(TimesDEG_TO_RAD(se.HA))))))]

calc_SEA(se) == [se EXCEPT !.SEA = Sub(D(90), se.SZA)]
\* a decimal literal of the source in arc form
ArcConst(whole, frac, places) ==
    Num(whole * 100 + (IF places <= 2
                       THEN frac * 10 ^ (2 - places)
                       ELSE (2 * frac + 10 ^ (places - 2)) \div (2 * 10 ^ (places - 2))))
\* a fix value in arc form
ArcOfFix(x) == IF IsNum(x) THEN Num(x.v \div 100) ELSE x
\* a / 3600.0 for an arc value a, in fix form
ArcDiv3600(a) == IF IsNum(a) THEN Num(a.v \div 36) ELSE a

\* c / pow(tn, n) for the literal c = num / den, taken as c * (1 / tn)^n:
\* the fifth power of the tangent of 5 degrees is below 1 / S
OverPow(num, den, tn, n) ==
    LET p == Pow(Div(D(1), tn), n)
    IN  IF IsNum(p) THEN Num(MulRatio(p.v, num, den)) ELSE p

calc_AAR(se) ==
    LET sea == se.SEA
        tn  == Tan(TimesDEG_TO_RAD(sea))
        aar == IF Gt(sea, D(85)) THEN ArcOfFix(D(0))
               ELSE IF Gt(sea, D(5))
               THEN ArcOfFix(Add(Sub(Div(Const(58, 1, 1), tn),
                                     OverPow(7, 100, tn, 3)),
                                 OverPow(86, 10 ^ 6, tn, 5)))
               ELSE IF Gt(sea, Neg(Const(0, 575, 3)))
               THEN Add(ArcConst(1735, 0, 0),
                        Mul(sea,
                            Mul(Mul(Neg(Const(581, 2, 1)), sea),
                                Add(ArcConst(103, 4, 1),
                                    Mul(sea,
                                        Add(Neg(ArcConst(12, 79, 2)),
                                            Mul(sea, ArcConst(0, 711, 3))))))))
               ELSE ArcOfFix(Div(Neg(Const(20, 772, 3)), tn))
    IN  [se EXCEPT !.AAR = ArcDiv3600(aar)]

calc_SEC_Corr(se) == [se EXCEPT !.SEC_Corr = Add(se.SEA, se.AAR)]

calc_SAA(se) ==
    LET ac == TimesRAD_TO_DEG(
                  Acos(Div(Sub(Mul(Sin(TimesDEG_TO_RAD(se.lat)),
                                   Cos(TimesDEG_TO_RAD(se.SZA))),
                               Sin(TimesDEG_TO_RAD(se.SDec))),
                           Mul(Cos(TimesDEG_TO_RAD(se.lat)),
                               Sin(TimesDEG_TO_RAD(se.SZA))))))
    IN  IF Gt(se.HA, D(0))
        THEN [se EXCEPT !.SAA = FlooredMod(Add(ac, D(180)), 360)]
        ELSE [se EXCEPT !.SAA = FlooredMod(Sub(D(540), ac), 360)]

\* calcSolar, its statements in their order: down to the hour angle of sunrise
calcSolarThroughHAS(t, se) ==
    LET s01 == calc_timeFracDay(t, se)
        s02 == calc_unixDays(t, s01)
        s03 == calc_JDN(s02)
        s04 == calc_JCN(s03)
        s05 == calc_GMLS(s04)
        s06 == calc_GMAS(s05)
        s07 == calc_EEO(s06)
        s08 == calc_SEC(s07)
        s09 == calc_STL(s08)
        s10 == calc_STA(s09)
        s11 == calc_SRV(s10)
        s12 == calc_SAL(s11)
        s13 == calc_MOE(s12)
        s14 == calc_OC(s13)
        s15 == calc_SRA(s14)
        s16 == calc_SDec(s15)
        s17 == calc_vy(s16)
        s18 == calc_EOT(s17)
    IN  calc_HAS(s18)

\* calcSolar, its statements in their order: from solar noon to the azimuth
calcSolarAfterHAS(s19, undef) ==
    LET s20 == calc_SolarNoonfrac(s19)
        s21 == calc_SolarNoonDays(s20)
        s22 == calc_SolarNoonTime(s21, undef)
        s23 == calc_Sunrise(s22)
        s24 == calc_SunriseTime(s23, undef)
        s25 == calc_Sunset(s24)
        s26 == calc_SunsetTime(s25, undef)
        s27 == calc_SunDuration(s26)
        s28 == calc_TST(s27)
        s29 == calc_HA(s28)
        s30 == calc_SZA(s29)
        s31 == calc_SEA(s30)
        s32 == calc_AAR(s31)
        s33 == calc_SEC_Corr(s32)
    IN  calc_SAA(s33)

\* Main function to calculate solar values
calcSolar(t, se, undef) == calcSolarAfterHAS(calcSolarThroughHAS(t, se), undef)
----------------------------------------------------------------------------
(* The inputs the model draws its calls from *)

NumSites == 4
NumTimes == 3
\* the interrupts of an interleaved run
NumInterrupts == 1
\* the grid of elevations given to the refraction statements
ElevationsPerDegree == 20

\* <<tzOffset, lat, lon>> of the i-th site.  At a pole cos(lat) is all but 0
\* and the quotient calc_SAA gives to acos is rounding noise.
SiteAt(i) ==
    CASE i = 1 -> <<-8, Const(36, 62, 2), Neg(Const(121, 904, 3))>>   \* Monterey
      [] i = 2 -> <<1, D(75), D(25)>>                   \* beyond the polar circle
      [] i = 3 -> <<0, Const(36, 62, 2), NaN>>          \* a longitude that is no number
      [] i = 4 -> <<0, D(-90), D(0)>>                   \* the south pole
      [] i = 5 -> <<2, D(10), Inf(1)>>                  \* an infinite longitude
      [] OTHER -> <<i - 18, D(5 * i), D(15 * (i - 18))>>

\* the i-th time value, seconds since 1970-1-1
TimeAt(i) ==
    CASE i = 1 -> 1356093045     \* 2012-12-21 12:30:45
      [] i = 2 -> 631152030      \* 1990-01-01 00:00:30
      [] i = 3 -> 1340223310     \* 2012-06-20 20:15:10
      [] i = 4 -> 1332223259     \* 2012-03-20 06:00:59
      [] OTHER -> 1379871907 + 86400 * i + 3607 * i

Sites == {SiteAt(i) : i \in 1..NumSites}
Times == {TimeAt(i) : i \in 1..NumTimes}

\* the time_t a build gives for a double that is no finite number
CastOutcomes == {0, -2147483647 - 1}

----------------------------------------------------------------------------
(* Init and the operations *)

\* static SolarElements SE: zero-initialised
ZeroSE ==
    [tzOffset |-> 0, lat |-> D(0), lon |-> D(0),
     timeFracDay |-> WD(0), unixDays |-> 0, JDN |-> WD(0), JCN |-> Num(0),
     GMLS |-> D(0), GMAS |-> D(0), EEO |-> D(0), SEC |-> D(0), STL |-> D(0),
     STA |-> D(0), SRV |-> D(0), SAL |-> D(0), MOE |-> D(0), OC |-> D(0),
     SRA |-> D(0), SDec |-> D(0), vy |-> D(0), EOT |-> D(0), HAS |-> D(0),
     SolarNoonfrac |-> WD(0), SolarNoonDays |-> WD(0), SolarNoonTime |-> 0,
     Sunrise |-> WD(0), SunriseTime |-> 0, Sunset |-> WD(0), SunsetTime |-> 0,
     SunDuration |-> D(0), TST |-> D(0), HA |-> D(0), SZA |-> D(0),
     SEA |-> D(0), AAR |-> D(0), SEC_Corr |-> D(0), SAA |-> D(0)]

\* the main loop is in no call
NoCall ==
    [pc |-> "idle", fn |-> "none", t |-> 0,
     cfg |-> [tzOffset |-> 0, lat |-> D(0), lon |-> D(0)],
     alone |-> TRUE]

Init ==
    /\ SE = ZeroSE
    /\ ret = [fn |-> "none", t |-> 0, val |-> 0]
    /\ lastInit = [tzOffset |-> 0, lat |-> D(0), lon |-> D(0)]
    /\ castNaN \in CastOutcomes
    /\ call = NoCall
    /\ interrupts = 0

initSolarCalc(tzOffset, lat, lon) ==
    /\ SE' = [SE EXCEPT !.tzOffset = tzOffset, !.lat = lat, !.lon = lon]
    /\ ret' = [fn |-> "initSolarCalc", t |-> 0, val |-> 0]
    /\ lastInit' = [tzOffset |-> tzOffset, lat |-> lat, lon |-> lon]
    /\ UNCHANGED <<castNaN, call, interrupts>>

gettzOffset ==
    /\ ret' = [fn |-> "gettzOffset", t |-> 0, val |-> SE.tzOffset]
    /\ UNCHANGED <<SE, lastInit, castNaN, call, interrupts>>

getlat ==
    /\ ret' = [fn |-> "getlat", t |-> 0, val |-> SE.lat]
    /\ UNCHANGED <<SE, lastInit, castNaN, call, interrupts>>

getlon ==
    /\ ret' = [fn |-> "getlon", t |-> 0, val |-> SE.lon]
    /\ UNCHANGED <<SE, lastInit, castNaN, call, interrupts>>

\* The accessors of a time value: each runs calcSolar(t, SE) and returns one
\* field of the cache.  se is the cache that call of calcSolar leaves.
Return(fn, t, se, val) ==
    /\ SE' = se
    /\ ret' = [fn |-> fn, t |-> t, val |-> val]
    /\ UNCHANGED <<lastInit, castNaN, call, interrupts>>

gettimeFracDay(t, se) == Return("gettimeFracDay", t, se, se.timeFracDay)
getunixDays(t, se) == Return("getunixDays", t, se, se.unixDays)
getJDN(t, se) == Return("getJDN", t, se, se.JDN)
getJCN(t, se) == Return("getJCN", t, se, se.JCN)
getGMLS(t, se) == Return("getGMLS", t, se, se.GMLS)
getGMAS(t, se) == Return("getGMAS", t, se, se.GMAS)
getEEO(t, se) == Return("getEEO", t, se, se.EEO)
getSEC(t, se) == Return("getSEC", t, se, se.SEC)
getSTL(t, se) == Return("getSTL", t, se, se.STL)
getSTA(t, se) == Return("getSTA", t, se, se.STA)
getSRV(t, se) == Return("getSRV", t, se, se.SRV)
getSAL(t, se) == Return("getSAL", t, se, se.SAL)
getMOE(t, se) == Return("getMOE", t, se, se.MOE)
getOC(t, se) == Return("getOC", t, se, se.MOE)
getSRA(t, se) == Return("getSRA", t, se, se.SRA)
getSDec(t, se) == Return("getSDec", t, se, se.SDec)
getvy(t, se) == Return("getvy", t, se, se.vy)
getEOT(t, se) == Return("getEOT", t, se, se.EOT)
getHAS(t, se) == Return("getHAS", t, se, se.HAS)
getSolarNoonfrac(t, se) == Return("getSolarNoonfrac", t, se, se.SolarNoonfrac)
getSolarNoonDays(t, se) == Return("getSolarNoonDays", t, se, se.SolarNoonDays)
getSolarNoonTime(t, se) == Return("getSolarNoonTime", t, se, se.SolarNoonTime)
getSunrise(t, se) == Return("getSunrise", t, se, se.Sunrise)
getSunriseTime(t, se) == Return("getSunriseTime", t, se, se.SunriseTime)
getSunset(t, se) == Return("getSunset", t, se, se.Sunset)
getSunsetTime(t, se) == Return("getSunsetTime", t, se, se.SunsetTime)
getSunDuration(t, se) == Return("getSunDuration", t, se, se.SunDuration)
getTST(t, se) == Return("getTST", t, se, se.TST)
getHA(t, se) == Return("getHA", t, se, se.HA)
getSZA(t, se) == Return("getSZA", t, se, se.SZA)
getSEA(t, se) == Return("getSEA", t, se, se.SEA)
getAAR(t, se) == Return("getAAR", t, se, se.AAR)
getSEC_Corr(t, se) == Return("getSEC_Corr", t, se, se.SEC_Corr)
getSAA(t, se) == Return("getSAA", t, se, se.SAA)

Accessor(t, se) ==
    \/ gettimeFracDay(t, se) \/ getunixDays(t, se) \/ getJDN(t, se)
    \/ getJCN(t, se) \/ getGMLS(t, se) \/ getGMAS(t, se) \/ getEEO(t, se)
    \/ getSEC(t, se) \/ getSTL(t, se) \/ getSTA(t, se) \/ getSRV(t, se)
    \/ getSAL(t, se) \/ getMOE(t, se) \/ getOC(t, se) \/ getSRA(t, se)
    \/ getSDec(t, se) \/ getvy(t, se) \/ getEOT(t, se) \/ getHAS(t, se)
    \/ getSolarNoonfrac(t, se) \/ getSolarNoonDays(t, se)
    \/ getSolarNoonTime(t, se) \/ getSunrise(t, se) \/ getSunriseTime(t, se)
    \/ getSunset(t, se) \/ getSunsetTime(t, se) \/ getSunDuration(t, se)
    \/ getTST(t, se) \/ getHA(t, se) \/ getSZA(t, se) \/ getSEA(t, se)
    \/ getAAR(t, se) \/ getSEC_Corr(t, se) \/ getSAA(t, se)

Next ==
    \/ \E site \in Sites : initSolarCalc(site[1], site[2], site[3])
    \/ gettzOffset
    \/ getlat
    \/ getlon
    \/ \E t \in Times : Accessor(t, calcSolar(t, SE, castNaN))

Spec == Init /\ [][Next]_vars

----------------------------------------------------------------------------
(* The same operations called from the main loop and from an interrupt handler.
   An accessor is calcSolar(t, SE) followed by the read of one field of SE, and
   SE is the one static cache: a handler that calls the library between two
   statements of the loop's call writes to the cache that call is using.  The
   loop's call is taken in three steps (calcSolar down to SE.HAS, the rest of
   calcSolar, the read); the handler's call runs to its end before the loop
   goes on.  One call of the loop is followed, from the configuration and the
   cache it finds to its return. *)

\* the accessors of the values computed from the hour angle
LateAccessors == {"getHA", "getSZA", "getSEA", "getAAR", "getSEC_Corr", "getSAA"}

\* return SE.<field>, for each of them
FieldRead(fn, se) ==
    CASE fn = "getHA" -> se.HA
      [] fn = "getSZA" -> se.SZA
      [] fn = "getSEA" -> se.SEA
      [] fn = "getAAR" -> se.AAR
      [] fn = "getSEC_Corr" -> se.SEC_Corr
      [] fn = "getSAA" -> se.SAA

\* the loop is between the first statement of its calcSolar and its return
InCall == call.pc \in {"calcSolar", "return"}

\* the handler has written to SE: a call the loop is in no longer runs alone
Disturbed == IF InCall THEN [call EXCEPT !.alone = FALSE] ELSE call

\* the loop calls fn(t): calcSolar(t, SE) as far as SE.HAS
EnterAccessor(fn, t) ==
    /\ call.pc = "idle"
    /\ SE' = calcSolarThroughHAS(t, SE)
    /\ call' = [pc |-> "calcSolar", fn |-> fn, t |-> t,
                cfg |-> [tzOffset |-> SE.tzOffset, lat |-> SE.lat,
                         lon |-> SE.lon],
                alone |-> TRUE]
    /\ UNCHANGED <<ret, lastInit, castNaN, interrupts>>

\* the loop runs the rest of its calcSolar, on the cache as it is now
FinishCalcSolar ==
    /\ call.pc = "calcSolar"
    /\ SE' = calcSolarAfterHAS(SE, castNaN)
    /\ call' = [call EXCEPT !.pc = "return"]
    /\ UNCHANGED <<ret, lastInit, castNaN, interrupts>>

\* the loop returns the field of the cache as it is now
ReturnField ==
    /\ call.pc = "return"
    /\ ret' = [fn |-> call.fn, t |-> call.t, val |-> FieldRead(call.fn, SE)]
    /\ call' = [call EXCEPT !.pc = "returned"]
    /\ UNCHANGED <<SE, lastInit, castNaN, interrupts>>

\* the loop, before its call, calls initSolarCalc
LoopInit(tzOffset, lat, lon) ==
    call.pc = "idle" /\ initSolarCalc(tzOffset, lat, lon)

\* an interrupt can come at any point up to the return of the loop's call
Interruptible == interrupts < NumInterrupts /\ call.pc # "returned"

\* the handler calls an accessor of a time value: a whole calcSolar(t, SE);
\* the value goes to the handler
InterruptAccessor(t) ==
    /\ Interruptible
    /\ SE' = calcSolar(t, SE, castNaN)
    /\ call' = Disturbed
    /\ interrupts' = interrupts + 1
    /\ UNCHANGED <<ret, lastInit, castNaN>>

\* the handler calls initSolarCalc
InterruptInit(tzOffset, lat, lon) ==
    /\ Interruptible
    /\ SE' = [SE EXCEPT !.tzOffset = tzOffset, !.lat = lat, !.lon = lon]
    /\ lastInit' = [tzOffset |-> tzOffset, lat |-> lat, lon |-> lon]
    /\ call' = Disturbed
    /\ interrupts' = interrupts + 1
    /\ UNCHANGED <<ret, castNaN>>

NextInterleaved ==
    \/ \E site \in Sites : LoopInit(site[1], site[2], site[3])
    \/ \E fn \in LateAccessors, t \in Times : EnterAccessor(fn, t)
    \/ FinishCalcSolar
    \/ ReturnField
    \/ \E t \in Times : InterruptAccessor(t)
    \/ \E site \in Sites : InterruptInit(site[1], site[2], site[3])

SpecInterleaved == Init /\ [][NextInterleaved]_vars

----------------------------------------------------------------------------
(* The refraction statements of calcSolar on their own: from an elevation
   SE.SEA to SE.AAR and SE.SEC_Corr. *)

\* the elevations the statements are given: from -0.5 to 6 degrees, and the
\* first value above the breakpoint at 5 degrees
Elevations ==
    {Num((k * S) \div ElevationsPerDegree) :
        k \in -(ElevationsPerDegree \div 2)..(6 * ElevationsPerDegree)}
    \cup {Num(5 * S + 1)}

\* the cache as the statement for SE.SEA leaves it
InitRefraction ==
    /\ \E sea \in Elevations : SE = [ZeroSE EXCEPT !.SEA = sea]
    /\ ret = [fn |-> "none", t |-> 0, val |-> 0]
    /\ lastInit = [tzOffset |-> 0, lat |-> D(0), lon |-> D(0)]
    /\ castNaN \in CastOutcomes
    /\ call = NoCall
    /\ interrupts = 0

\* SE.AAR = ...; SE.AAR = SE.AAR / 3600.0;
Refraction ==
    /\ ret.fn = "none"
    /\ SE' = calc_AAR(SE)
    /\ ret' = [fn |-> "AAR", t |-> 0, val |-> calc_AAR(SE).AAR]
    /\ UNCHANGED <<lastInit, castNaN, call, interrupts>>

\* SE.SEC_Corr = SE.SEA + SE.AAR;
CorrectedElevation ==
    /\ ret.fn = "AAR"
    /\ SE' = calc_SEC_Corr(SE)
    /\ ret' = [fn |-> "SEC_Corr", t |-> 0, val |-> calc_SEC_Corr(SE).SEC_Corr]
    /\ UNCHANGED <<lastInit, castNaN, call, interrupts>>

NextRefraction == Refraction \/ CorrectedElevation

SpecRefraction == InitRefraction /\ [][NextRefraction]_vars

----------------------------------------------------------------------------
(* What the properties below speak of *)

\* the last call was an accessor of a time value: SE is what its calcSolar left
Computed ==
    ret.fn \notin {"none", "initSolarCalc", "gettzOffset", "getlat", "getlon"}

\* latitude and longitude are finite numbers
FiniteSite == IsNum(SE.lat) /\ IsNum(SE.lon)

\* a cache that holds the most recent configuration and nothing of earlier calls
FreshSE ==
    [ZeroSE EXCEPT !.tzOffset = lastInit.tzOffset, !.lat = lastInit.lat,
                   !.lon = lastInit.lon]

\* a number of minutes (fix) as a number of seconds (wide)
SecondsOf(x) ==
    IF IsNaN(x) THEN WNaN
    ELSE IF IsInf(x) THEN WInf(x.v)
    ELSE W((x.v * 60) \div S, ((x.v * 60) % S) * 1440)

\* t / 86400 as a day count
DayCount(t) == W(t \div 86400, ((t % 86400) * S) \div 60)

\* 0 <= x < m
InRange(x, m) == IsNum(x) /\ x.v >= 0 /\ x.v < m * S

----------------------------------------------------------------------------
\* C1: history independence.  After an accessor call getX(t) the cache, and
\* so the value returned, is what calcSolar gives for t and the arguments of
\* the most recent initSolarCalc on a cache holding nothing else: no value of
\* an earlier call is left in it.
C1_HistoryIndependence ==
    Computed =>
        LET fresh == calcSolar(ret.t, FreshSE, castNaN)
        IN  /\ SE = fresh
            /\ ret.fn = "getHA" => ret.val = fresh.HA
            /\ ret.fn = "getSZA" => ret.val = fresh.SZA
            /\ ret.fn = "getSEA" => ret.val = fresh.SEA
            /\ ret.fn = "getAAR" => ret.val = fresh.AAR
            /\ ret.fn = "getSEC_Corr" => ret.val = fresh.SEC_Corr
            /\ ret.fn = "getSAA" => ret.val = fresh.SAA

\* C2: the configuration changes only through initSolarCalc.  In every state
\* tzOffset, lat and lon of the cache are the arguments of the most recent
\* initSolarCalc (zero before the first), whatever accessors ran since, and
\* gettzOffset, getlat and getlon return exactly those.
C2_ConfigOnlyByInit ==
    /\ SE.tzOffset = lastInit.tzOffset
    /\ SE.lat = lastInit.lat
    /\ SE.lon = lastInit.lon
    /\ ret.fn = "gettzOffset" => ret.val = lastInit.tzOffset
    /\ ret.fn = "getlat" => ret.val = lastInit.lat
    /\ ret.fn = "getlon" => ret.val = lastInit.lon

\* getlon returns Monterey's longitude although calcSolar last ran, and left
\* its not-a-number TST, under the configuration before it
C2_Witness ==
    /\ ret.fn = "getlon"
    /\ ret.val = Neg(Const(121, 904, 3))
    /\ SE.unixDays > 0
    /\ IsNaN(SE.TST)

\* C3: getOC(t) returns the Obliquity Correction OC that calcSolar computed
\* for t.
C3_getOCReturnsOC == ret.fn = "getOC" => ret.val = SE.OC

\* C4: timeFracDay counts the seconds of t.  86400 * timeFracDay is
\* t mod 86400, unixDays * 86400 + 86400 * timeFracDay is t, and JDN is
\* 2440587.5 + t / 86400 - tzOffset / 24.
C4_TimeFracDayCountsSeconds ==
    Computed =>
        /\ Times86400(SE.timeFracDay) = WD(ret.t % 86400)
        /\ WAdd(WD(SE.unixDays * 86400), Times86400(SE.timeFracDay)) = WD(ret.t)
        /\ SE.JDN = WSub(WAdd(julianUnixEpoch, DayCount(ret.t)),
                         IntDiv24(SE.tzOffset))

\* the time value that, with tzOffset 0, names the instant that ret.t names
\* with the tzOffset of the cache: calc_JDN subtracts tzOffset / 24
UtcOf == ret.t - 3600 * SE.tzOffset

\* two counts of seconds name the same second, read either as they stand or
\* with the second brought from the zone's clock (offset) to tzOffset 0
SameSecond(a, b, offset) ==
    \/ Abs(a - b) <= 1
    \/ Abs(a - (b - 3600 * offset)) <= 1

SunriseNoonSunset(se) ==
    LET noon == Times86400(se.SolarNoonDays)
        half == SecondsOf(Mul(D(4), se.HAS))
    IN  /\ Ge(se.HAS, D(0))
        /\ WLe(se.Sunrise, noon) /\ WLe(noon, se.Sunset)
        /\ se.SunriseTime <= se.SolarNoonTime
        /\ se.SolarNoonTime <= se.SunsetTime
        /\ WSub(noon, se.Sunrise) = half
        /\ WSub(se.Sunset, noon) = half
        /\ se.SunDuration = Mul(D(8), se.HAS)
        /\ WSub(se.Sunset, se.Sunrise) = SecondsOf(se.SunDuration)

\* C6 (as amended): whenever HAS and the longitude are finite, HAS >= 0,
\* Sunrise <= SolarNoon <= Sunset, also for the truncated time values, sunrise
\* and sunset are 240 * HAS seconds from solar noon, and Sunset - Sunrise in
\* seconds is 60 * SunDuration, SunDuration being 8 * HAS minutes.
C6_SunriseNoonSunset ==
    (Computed /\ IsNum(SE.HAS) /\ IsNum(SE.lon)) => SunriseNoonSunset(SE)

\* a day length was returned for a day with a sunrise before noon
C6_Witness ==
    /\ ret.fn = "getSunDuration"
    /\ IsNum(SE.HAS) /\ IsNum(SE.lon)
    /\ SE.HAS.v > 0
    /\ SE.SunriseTime < SE.SolarNoonTime
    /\ ret.val = SE.SunDuration

\* C6 as stated: whenever HAS is finite, the same.
C6_SunriseNoonSunsetAsStated ==
    (Computed /\ IsNum(SE.HAS)) => SunriseNoonSunset(SE)

ZoneMatchesLongitude ==
    /\ IsNum(SE.lon) /\ IsNum(SE.EOT)
    /\ Abs(4 * SE.lon.v - 60 * SE.tzOffset * S) <= 60 * S
    /\ Abs(SE.EOT.v) <= 20 * S

\* C8: solar noon is reported for the day of t.  When the tzOffset matches
\* the longitude to within an hour and |EOT| <= 20 minutes, SolarNoonTime
\* lies on the day of t: floor(SolarNoonTime / 86400) = floor(t / 86400) =
\* unixDays, and getSolarNoonTime returns it.
C8_NoonOnTheDayOfT ==
    (Computed /\ ZoneMatchesLongitude) =>
        /\ SE.SolarNoonTime \div 86400 = ret.t \div 86400
        /\ ret.t \div 86400 = SE.unixDays
        /\ ret.fn = "getSolarNoonTime" => ret.val \div 86400 = ret.t \div 86400

\* a solar noon was returned for Monterey, whose zone is not tzOffset 0
C8_Witness ==
    /\ ret.fn = "getSolarNoonTime"
    /\ ZoneMatchesLongitude
    /\ SE.tzOffset = -8
    /\ ret.val = SE.SolarNoonTime
    /\ ret.val > 0

\* what a not-a-number HAS reaches and what it leaves alone
HASConfined(se, undef) ==
    LET other == calcSolarAfterHAS([se EXCEPT !.HAS = D(90)], undef)
    IN  /\ IsNaN(se.Sunrise) /\ IsNaN(se.Sunset) /\ IsNaN(se.SunDuration)
        /\ IsNum(se.SolarNoonfrac) /\ IsNum(se.SolarNoonDays)
        /\ IsNum(se.TST) /\ IsNum(se.HA) /\ IsNum(se.SZA) /\ IsNum(se.SEA)
        /\ se.SolarNoonfrac = other.SolarNoonfrac
        /\ se.SolarNoonDays = other.SolarNoonDays
        /\ se.SolarNoonTime = other.SolarNoonTime
        /\ se.TST = other.TST
        /\ se.HA = other.HA
        /\ se.SZA = other.SZA
        /\ se.SEA = other.SEA
        /\ se.SAA = other.SAA

\* C9 (as amended): a not-a-number HAS stays with its dependents.  When HAS
\* is not-a-number while lat, lon and t are finite, Sunrise, Sunset and
\* SunDuration are not-a-number; SolarNoonfrac, SolarNoonDays, SolarNoonTime,
\* TST, HA, SZA, SEA and SAA have the values they have with a finite HAS in
\* the cache, and all of them but SAA are finite (SAA can be not-a-number on
\* its own account).
C9_HASConfined ==
    (Computed /\ FiniteSite /\ IsNaN(SE.HAS)) => HASConfined(SE, castNaN)

\* a sunrise that is no number was returned at 75 degrees north, with the
\* azimuth finite
C9_Witness ==
    /\ ret.fn = "getSunrise"
    /\ SE.lat = D(75) /\ IsNum(SE.lon)
    /\ IsNaN(SE.HAS)
    /\ IsNaN(ret.val)
    /\ IsNum(SE.SAA) /\ IsNum(SE.SEA)

\* C9 as stated: the same, and exactly HAS, Sunrise, Sunset and SunDuration
\* are not-a-number: AAR, SEC_Corr and SAA are numbers.
C9_HASConfinedAsStated ==
    (Computed /\ FiniteSite /\ IsNaN(SE.HAS)) =>
        /\ HASConfined(SE, castNaN)
        /\ ~IsNaN(SE.AAR) /\ ~IsNaN(SE.SEC_Corr) /\ ~IsNaN(SE.SAA)

\* C10: not-a-number propagation is complete.  When TST is not-a-number
\* after a calcSolar, HA and the fields computed from HA (SZA, SEA, AAR,
\* SEC_Corr, SAA) are not-a-number.
C10_NaNPropagation ==
    (Computed /\ IsNaN(SE.TST)) =>
        /\ IsNaN(SE.HA)
        /\ IsNaN(SE.SZA) /\ IsNaN(SE.SEA)
        /\ IsNaN(SE.AAR) /\ IsNaN(SE.SEC_Corr)
        /\ IsNaN(SE.SAA)

----------------------------------------------------------------------------
\* the loop's call has returned: ret holds what it returned
Returned == call.pc = "returned"

\* the value of the field for the call's own t and the configuration in force
\* when it started, no earlier or other call having touched the cache
OwnValue ==
    FieldRead(call.fn,
              calcSolar(call.t,
                        [ZeroSE EXCEPT !.tzOffset = call.cfg.tzOffset,
                                       !.lat = call.cfg.lat,
                                       !.lon = call.cfg.lon],
                        castNaN))

----------------------------------------------------------------------------
----------------------------------------------------------------------------
\* -0.575 < SE.SEA <= 5: the segment of the quartic polynomial
InPolynomialSegment(se) == Gt(se.SEA, Neg(Const(0, 575, 3))) /\ Le(se.SEA, D(5))

\* what the segment 5 < SEA <= 85 gives just above 5 degrees
AARJustAboveFive == calc_AAR([ZeroSE EXCEPT !.SEA = Num(5 * S + 1)]).AAR

\* C13: the refraction correction is a small lift.  For every elevation in
\* the polynomial segment, AAR is between 0 and 1 degree, SEC_Corr is SEA
\* raised by at most 1 degree, and at SEA = 5 AAR is within 0.01 degree of
\* what the next segment gives just above 5.
C13_RefractionIsASmallLift ==
    (ret.fn = "SEC_Corr" /\ InPolynomialSegment(SE)) =>
        /\ Ge(SE.AAR, D(0)) /\ Le(SE.AAR, D(1))
        /\ Ge(SE.SEC_Corr, SE.SEA)
        /\ Le(Sub(SE.SEC_Corr, SE.SEA), D(1))
        /\ SE.SEA = D(5) =>
               /\ Le(Sub(SE.AAR, AARJustAboveFive), Const(0, 1, 2))
               /\ Le(Sub(AARJustAboveFive, SE.AAR), Const(0, 1, 2))

====
